---- MODULE Spec2Model ----
(***************************************************************************)
(* A model of the set library of src/set.c and src/set.h: sets kept as     *)
(* singly linked lists of members, with the set algebra built on           *)
(* set_insert and set_ismember.                                            *)
(*                                                                         *)
(* The heap of Member cells is explicit.  A cell that was freed keeps its  *)
(* contents and may be handed out again by a later malloc, so a dangling   *)
(* pointer reads and writes whatever lives at that address.  A call that   *)
(* touches a freed cell may also be killed by the run time (crashed).      *)
(* A call that dereferences NULL crashes.                                  *)
(***************************************************************************)
EXTENDS Integers, Sequences, FiniteSets

\* ---------------------------------------------------------------- bounds
NumHandles == 3      \* Set * variables of the caller
MaxMembers == 5      \* Member cells of the heap
NumPayloads == 3     \* payload pointers the caller can pass
MaxInputs == 2       \* sets given to set_union / set_intersection
MaxCalls == 7        \* calls of the library in one run
MaxSetup == 5        \* calls of a run before a set operation

NULL == 0
NoData == -1         \* stands for set_remove's data argument being NULL itself
Handles == 1..NumHandles
Addrs == 1..MaxMembers
Payloads == 1..NumPayloads

\* The int a payload pointer points to: payloads 2k-1 and 2k hold the same int.
Val(p) == (p + 1) \div 2

\* ------------------------------------------------------------ set.h types
\* A Set * that is NULL.
NoSet == [valid |-> FALSE, size |-> 0, match |-> "NULL", destroy |-> "NULL",
          head |-> NULL, tail |-> NULL]

NoMember == [data |-> NULL, next |-> NULL]

NoOp == [name |-> "init", h |-> 0, ins |-> <<>>, data |-> NULL,
         failAt |-> 0, failed |-> "no", uaf |-> FALSE, fresh |-> FALSE,
         same |-> FALSE, match |-> "match", func |-> "NULL"]

VARIABLES
  sets,      \* sets[h]: the Set that the caller's handle h points to, or NoSet
  mem,       \* mem[a]: the Member cell at address a (data, next)
  live,      \* addresses of the Member cells that are allocated
  freed,     \* addresses of the Member cells that were freed, reusable by malloc
  hist,      \* hist[h]: payloads inserted into sets[h] with result 0 and not
             \* yet handed back by set_remove, oldest first
  crashed,   \* the process died in the last call (NULL dereference, or killed
             \* on touching freed memory, or a loop that never ends)
  ret,       \* return value of the last call
  out,       \* *data after the last set_remove
  op,        \* the last call and its arguments
  used,      \* payloads the caller has handed to set_insert
  done,      \* the caller has made its set operation and stops
  calls,     \* number of calls made so far
  log,       \* payloads the last call passed to a callback (the set's
             \* destroy function, or set_traverse's func), in order
  released   \* payloads that a destroy function has been called on

vars == <<sets, mem, live, freed, hist, crashed, ret, out, op, used, done,
          calls, log, released>>

\* The machine a call runs on: the heap and the caller's handles, with the
\* allocator's choices for this call (failAt, pick) and what happened in it.
Machine(fa, pk) ==
  [sets |-> sets, mem |-> mem, live |-> live, freed |-> freed, hist |-> hist,
   crash |-> FALSE, uaf |-> FALSE, bad |-> FALSE,
   nalloc |-> 0, failAt |-> fa, pick |-> pk, failed |-> "no",
   log |-> <<>>, released |-> released]

\* ------------------------------------------------------------ the C heap
\* The element of a set of one element.  Only({e(x) : x \in {v}}) is e(v)
\* with v computed once, the way a C statement computes the value it assigns.
Only(S) == CHOOSE x \in S : TRUE

Min(S) == CHOOSE x \in S : \A y \in S : x <= y

\* Cells that were never allocated.
Fresh(M) == Addrs \ (M.live \cup M.freed)

\* The cell malloc returns: with pick "reuse" a freed cell when there is one,
\* with pick "fresh" a never-used cell when there is one.
Chosen(M) ==
  IF M.freed # {} /\ (M.pick = "reuse" \/ Fresh(M) = {}) THEN Min(M.freed)
  ELSE Min(Fresh(M))

\* The next allocation of this call fails (returns NULL)?  failed records
\* which allocation did: "no", "set" or "member".
AllocFails(M) == M.nalloc + 1 = M.failAt

\* malloc(sizeof(Member)): [m, p]; p = NULL when the allocation fails.
\* bad: the model has no cell left (a bound of the model, not of the code).
MallocMember(M) ==
  LET M1 == [M EXCEPT !.nalloc = @ + 1] IN
  IF AllocFails(M) THEN [m |-> [M1 EXCEPT !.failed = "member"], p |-> NULL]
  ELSE IF M.freed \cup Fresh(M) = {}
       THEN [m |-> [M1 EXCEPT !.bad = TRUE], p |-> NULL]
  ELSE LET a == Chosen(M)
       IN  [m |-> [M1 EXCEPT !.live = @ \cup {a}, !.freed = @ \ {a}], p |-> a]

\* free(p) of a Member; freeing a cell that is not allocated is a double free.
FreeMember(M, a) ==
  IF a \in M.live
  THEN [M EXCEPT !.live = @ \ {a}, !.freed = @ \cup {a}]
  ELSE [M EXCEPT !.uaf = TRUE]

\* The effect of dereferencing the Member pointer a.
Deref(M, a) ==
  IF a = NULL THEN [M EXCEPT !.crash = TRUE]
  ELSE IF a \notin M.live THEN [M EXCEPT !.uaf = TRUE]
  ELSE M

Crash(M) == [M EXCEPT !.crash = TRUE]

\* ----------------------------------------------------------- user functions
\* A match() that compares the pointers and not the ints they point to.
match_pointers(one, two) == IF one = two THEN 1 ELSE 0

\* match() of the test drivers: 1 if the two ints are equal.
match(one, two) ==
  IF one = NULL /\ two = NULL THEN 1
  ELSE IF one = NULL \/ two = NULL THEN 0
  ELSE IF Val(one) = Val(two) THEN 1 ELSE 0

\* ------------------------------------------------------------- set.h macros
set_isempty(S) == IF S.size = 0 THEN 1 ELSE 0

\* ---------------------------------------------------------------- set_create
\* [m, set]: the new Set, or NoSet when malloc(sizeof(Set)) fails.
set_create(M, matchfn, destroyfn) ==
  LET M1 == [M EXCEPT !.nalloc = @ + 1] IN
  IF AllocFails(M) THEN [m |-> [M1 EXCEPT !.failed = "set"], set |-> NoSet]
  ELSE [m |-> M1,
        set |-> [valid |-> TRUE, size |-> 0, match |-> matchfn,
                 destroy |-> destroyfn, head |-> NULL, tail |-> NULL]]

\* -------------------------------------------------------------- set_ismember
\* The scan of set_ismember from a non-NULL current; fuel bounds the walk, a
\* walk longer than the heap is a cycle and never ends.
RECURSIVE ismember_scan(_, _, _, _)
ismember_scan(M, current, data, fuel) ==
  Only({ IF match(M.mem[current].data, data) = 1 THEN [m |-> M1, ret |-> 1]
         ELSE IF nxt = NULL THEN [m |-> M1, ret |-> 0]
         ELSE IF fuel = 0 THEN [m |-> Crash(M1), ret |-> 0]
         ELSE ismember_scan(M1, nxt, data, fuel - 1)
         : M1 \in {Deref(M, current)}, nxt \in {M.mem[current].next} })

\* set_ismember(set, data) with set == S: [m, ret].  The scan starts with a
\* call of set->match, which is a call through NULL when the set was created
\* without a match function.
set_ismember(M, S, data) ==
  IF ~S.valid \/ data = NULL THEN [m |-> M, ret |-> -1]
  ELSE IF set_isempty(S) = 1 THEN [m |-> M, ret |-> 0]
  ELSE IF S.head = NULL \/ S.match = "NULL" THEN [m |-> Crash(M), ret |-> 0]
  ELSE ismember_scan(M, S.head, data, MaxMembers)

\* ---------------------------------------------------------------- set_insert
\* The linking of the new member into the set of handle h.
insert_link(M, h, new) ==
  LET S == M.sets[h] IN
  IF set_isempty(S) = 1
  THEN [M EXCEPT !.sets[h].head = new, !.sets[h].tail = new,
                 !.mem[new].next = NULL]
  ELSE IF S.tail = NULL THEN Crash(M)
  ELSE LET M1 == Deref(M, S.tail)
           M2 == [M1 EXCEPT !.mem[S.tail].next = new]
       IN  [M2 EXCEPT !.sets[h].tail = new, !.mem[new].next = NULL]

\* set_insert(set, data) with set the Set of handle h: [m, ret].
set_insert(M, h, data) ==
  IF data = NULL THEN [m |-> M, ret |-> -1]
  ELSE
    Only({
      IF r.m.crash THEN [m |-> r.m, ret |-> 0]
      ELSE IF r.ret # 0 THEN [m |-> r.m, ret |-> 1]
      ELSE Only({
        IF a.m.bad THEN [m |-> a.m, ret |-> 0]
        ELSE IF a.p = NULL THEN [m |-> Crash(a.m), ret |-> 0]
        ELSE Only({
          IF M2.crash THEN [m |-> M2, ret |-> 0]
          ELSE [m |-> [M2 EXCEPT !.sets[h].size = @ + 1,
                                 !.hist[h] = Append(@, data)],
                ret |-> 0]
          : M2 \in {insert_link([a.m EXCEPT !.mem[a.p].data = data],
                                h, a.p)} })
        : a \in {MallocMember(r.m)} })
      : r \in {set_ismember(M, M.sets[h], data)} })

\* ---------------------------------------------------------------- set_remove
\* The member before the first one whose data matches, from a current whose
\* own data does not match: [m, p].
RECURSIVE remove_find(_, _, _, _)
remove_find(M, current, data, fuel) ==
  Only({ IF nxt = NULL THEN [m |-> Crash(M1), p |-> NULL]
         ELSE IF match(M.mem[nxt].data, data) = 1
              THEN [m |-> Deref(M1, nxt), p |-> current]
         ELSE IF fuel = 0 THEN [m |-> Crash(M1), p |-> NULL]
         ELSE Only({ remove_find(M2, nxt, data, fuel - 1)
                     : M2 \in {Deref(M1, nxt)} })
         : nxt \in {M.mem[current].next}, M1 \in {Deref(M, current)} })

\* Unlinking of the head member: [m, old].
remove_head(M, h) ==
  LET S == M.sets[h] IN
  IF ~S.valid \/ S.head = NULL THEN [m |-> Crash(M), old |-> NULL]
  ELSE
    LET M1 == Deref(M, S.head)
        nh == M.mem[S.head].next
    IN  [m |-> [M1 EXCEPT !.sets[h].head = nh,
                          !.sets[h].tail = IF nh = NULL THEN NULL ELSE @],
         old |-> S.head]

\* Unlinking of the member after current: [m, old].
remove_after(M, h, current) ==
  LET S   == M.sets[h]
      old == M.mem[current].next
  IN  IF old = S.tail
      THEN [m |-> [M EXCEPT !.mem[current].next = NULL], old |-> old]
      ELSE [m |-> [Deref(M, old) EXCEPT !.mem[current].next = M.mem[old].next],
            old |-> old]

\* Removal of the payload of a member from the history of handle h.
RECURSIVE WithoutFirst(_, _)
WithoutFirst(s, x) ==
  IF s = <<>> THEN <<>>
  ELSE IF Head(s) = x THEN Tail(s)
  ELSE <<Head(s)>> \o WithoutFirst(Tail(s), x)

\* A set_remove that also calls the set's destroy function on the payload.
remove_finish_destroy(M, h, old) ==
  LET d  == M.mem[old].data
      M1 == FreeMember(Deref(M, old), old)
  IN  [m |-> [M1 EXCEPT !.sets[h].size = @ - 1,
                        !.hist[h] = WithoutFirst(@, d),
                        !.log = IF M.sets[h].destroy # "NULL"
                                THEN Append(@, d) ELSE @,
                        !.released = IF M.sets[h].destroy # "NULL"
                                     THEN @ \cup {d} ELSE @],
       ret |-> 0, out |-> d]

\* *data = old->data; free(old); set->size--: [m, ret, out].
remove_finish(M, h, old) ==
  LET d  == M.mem[old].data
      M1 == FreeMember(Deref(M, old), old)
  IN  [m |-> [M1 EXCEPT !.sets[h].size = @ - 1,
                        !.hist[h] = WithoutFirst(@, d)],
       ret |-> 0, out |-> d]

\* set_remove(set, data) with set the Set of handle h and *data == sel:
\* [m, ret, out], out the value of *data after the call.
set_remove(M, h, sel) ==
  IF sel = NoData THEN [m |-> Crash(M), ret |-> 0, out |-> NULL]
  ELSE Only({
    IF r.m.crash THEN [m |-> r.m, ret |-> 0, out |-> sel]
    ELSE IF r.ret # 1 /\ sel # NULL THEN [m |-> r.m, ret |-> -1, out |-> sel]
    ELSE IF sel = NULL THEN
      Only({ IF u.m.crash THEN [m |-> u.m, ret |-> 0, out |-> sel]
             ELSE remove_finish(u.m, h, u.old)
             : u \in {remove_head(r.m, h)} })
    ELSE
      LET current == r.m.sets[h].head IN
      IF match(r.m.mem[current].data, sel) # 1 THEN
        Only({ IF f.m.crash THEN [m |-> f.m, ret |-> 0, out |-> sel]
               ELSE Only({ remove_finish(u.m, h, u.old)
                           : u \in {remove_after(f.m, h, f.p)} })
               : f \in {remove_find(r.m, current, sel, MaxMembers)} })
      ELSE
        Only({ remove_finish(u.m, h, u.old) : u \in {remove_head(r.m, h)} })
    : r \in {set_ismember(M, M.sets[h], sel)} })

\* -------------------------------------------------------------- set_traverse
\* The for loop of set_traverse from current, calling func on each payload: M.
RECURSIVE traverse_members(_, _, _, _)
traverse_members(M, current, func, fuel) ==
  IF current = NULL THEN M
  ELSE IF func = "NULL" \/ fuel = 0 THEN Crash(M)
  ELSE
    Only({ traverse_members([M1 EXCEPT !.log = Append(@, M.mem[current].data)],
                            M.mem[current].next, func, fuel - 1)
           : M1 \in {Deref(M, current)} })

\* set_traverse(set, func) with set pointing to the Set S: [m, ret].
set_traverse(M, S, func) ==
  IF ~S.valid \/ set_isempty(S) = 1 THEN [m |-> M, ret |-> -1]
  ELSE [m |-> traverse_members(M, S.head, func, 2 * MaxMembers), ret |-> 0]

\* --------------------------------------------------------------- set_destroy
\* The loop of set_destroy on the Set of handle h: M.
\* (*set)->destroy(data), with free as the destroy function: a payload that
\* was released before is released a second time.
destroy_data(M, data) ==
  [M EXCEPT !.log = Append(@, data),
            !.released = @ \cup {data},
            !.uaf = @ \/ data \in M.released]

RECURSIVE destroy_loop(_, _)
destroy_loop(M, h) ==
  LET S == M.sets[h] IN
  IF S.size <= 0 THEN M
  ELSE IF S.head = NULL THEN Crash(M)
  ELSE
    Only({ destroy_loop(IF S.destroy # "NULL"
                        THEN destroy_data(M2, M.mem[S.head].data) ELSE M2, h)
           : M2 \in {FreeMember([Deref(M, S.head) EXCEPT
                                   !.sets[h].head = M.mem[S.head].next,
                                   !.sets[h].size = @ - 1],
                                S.head)} })

\* set_destroy(set) with set the address of handle h: M.
set_destroy(M, h) ==
  IF ~M.sets[h].valid THEN Crash(M)
  ELSE
    Only({ IF M1.crash THEN M1
           ELSE [M1 EXCEPT !.sets[h] = NoSet, !.hist[h] = <<>>]
           : M1 \in {destroy_loop(M, h)} })

\* ------------------------------------------------------------------ actions
Init ==
  /\ sets = [h \in Handles |-> NoSet]
  /\ mem = [a \in Addrs |-> NoMember]
  /\ live = {}
  /\ freed = {}
  /\ hist = [h \in Handles |-> <<>>]
  /\ crashed = FALSE
  /\ ret = 0
  /\ out = NULL
  /\ op = NoOp
  /\ used = {}
  /\ done = FALSE
  /\ calls = 0
  /\ log = <<>>
  /\ released = {}

\* The call left the heap, the handles and the caller's payloads as they were.
Same(M, o) ==
  /\ M.sets = sets /\ M.mem = mem /\ M.live = live /\ M.freed = freed
  /\ M.hist = hist /\ M.released = released
  /\ (o.name = "insert" => o.data \in used \cup {NULL})

\* The call o ends on machine M with return value r and *data == d.  A call
\* that touched freed memory either goes on with what it found there or dies.
Return(M, o, r, d) ==
  /\ ~M.bad
  /\ used' = used \cup (IF o.name = "insert" THEN {o.data} \ {NULL} ELSE {})
  /\ done' = (done \/ o.name \in {"union", "intersection", "difference"})
  /\ calls' = calls + 1
  /\ \E segv \in {FALSE, M.uaf} :
       LET rec == [o EXCEPT !.failed = M.failed, !.uaf = M.uaf,
                            !.same = ~M.crash /\ ~segv /\ Same(M, o)] IN
       IF M.crash \/ segv
       THEN /\ sets' = [h \in Handles |-> NoSet]
            /\ mem' = [a \in Addrs |-> NoMember]
            /\ live' = {}
            /\ freed' = {}
            /\ hist' = [h \in Handles |-> <<>>]
            /\ crashed' = TRUE
            /\ ret' = 0
            /\ out' = NULL
            /\ op' = rec
            /\ log' = <<>>
            /\ released' = {}
       ELSE /\ sets' = M.sets
            /\ mem' = M.mem
            /\ live' = M.live
            /\ freed' = M.freed
            /\ hist' = M.hist
            /\ crashed' = FALSE
            /\ ret' = r
            /\ out' = d
            /\ op' = rec
            /\ log' = M.log
            /\ released' = M.released

Call(nm, h, ins, d, fa) ==
  [name |-> nm, h |-> h, ins |-> ins, data |-> d, failAt |-> fa,
   failed |-> "no", uaf |-> FALSE, fresh |-> ~sets[h].valid, same |-> FALSE,
   match |-> "match", func |-> "NULL"]


\* -------------------------------------------------------------- set_union_func
\* The inner loop of set_union_func from current: [m, ret], ret = -1 on the
\* jump to error_exception.
RECURSIVE union_members(_, _, _, _)
union_members(M, hu, current, fuel) ==
  IF current = NULL THEN [m |-> M, ret |-> 0]
  ELSE IF fuel = 0 THEN [m |-> Crash(M), ret |-> 0]
  ELSE
    Only({ IF r.m.crash \/ r.m.bad THEN r
           ELSE IF r.ret < 0 THEN [m |-> r.m, ret |-> -1]
           ELSE Only({ union_members(r.m, hu, nxt, fuel - 1)
                       : nxt \in {r.m.mem[current].next} })
           : r \in {set_insert(Deref(M, current), hu, M.mem[current].data)} })

\* The index in sets[] (from 1) of the set of the k-th pass of the outer loop:
\* for (set = sets[i]; set != NULL; set = sets[i++]) with i == 0 at the start.
union_index(k) == IF k = 0 THEN 1 ELSE k

\* The outer loop of set_union_func from its k-th pass: [m, ret].
RECURSIVE union_sets(_, _, _, _)
union_sets(M, hu, arr, k) ==
  LET set == arr[union_index(k)] IN
  IF set = NULL THEN [m |-> M, ret |-> 0]
  ELSE
    Only({ IF r.m.crash \/ r.m.bad \/ r.ret < 0 THEN r
           ELSE union_sets(r.m, hu, arr, k + 1)
           : r \in {union_members(M, hu, M.sets[set].head, 2 * MaxMembers)} })

\* The start of set_union_func and set_intersection_func on the output handle
\* ho: [m, ret], ret = -1 when the function returns there.
algebra_output(M, ho, arr) ==
  IF arr[1] = NULL THEN [m |-> M, ret |-> -1]
  ELSE IF ~M.sets[ho].valid THEN
    Only({ IF ~c.set.valid THEN [m |-> c.m, ret |-> -1]
           ELSE [m |-> [c.m EXCEPT !.sets[ho] = c.set, !.hist[ho] = <<>>],
                 ret |-> 0]
           : c \in {set_create(M, M.sets[arr[1]].match,
                               M.sets[arr[1]].destroy)} })
  ELSE IF M.sets[ho].size > 0 THEN [m |-> M, ret |-> -1]
  ELSE [m |-> M, ret |-> 0]

\* set_union_func(setu, sets) with setu the address of handle hu and sets the
\* array arr of handles ended by NULL: [m, ret].
set_union_func(M, hu, arr) ==
  Only({
    IF o.ret < 0 THEN o
    ELSE Only({ IF r.m.crash \/ r.m.bad \/ r.ret = 0 THEN r
                ELSE [m |-> set_destroy(r.m, hu), ret |-> -1]
                : r \in {union_sets(o.m, hu, arr, 0)} })
    : o \in {algebra_output(M, hu, arr)} })

\* ------------------------------------------------------- set_intersection_func
\* A while loop that asks no set: every member of the first set is kept.
intersection_others_none(M, arr, j, data) == [m |-> M, nonmember |-> 0]

\* The while loop over sets[j], sets[j+1], ...: [m, nonmember].
RECURSIVE intersection_others(_, _, _, _)
intersection_others(M, arr, j, data) ==
  IF arr[j] = NULL THEN [m |-> M, nonmember |-> 0]
  ELSE
    Only({ IF r.m.crash THEN [m |-> r.m, nonmember |-> 0]
           ELSE IF r.ret = 0 THEN [m |-> r.m, nonmember |-> 1]
           ELSE intersection_others(r.m, arr, j + 1, data)
           : r \in {set_ismember(M, M.sets[arr[j]], data)} })

\* The for loop of set_intersection_func from current: M.
RECURSIVE intersection_members(_, _, _, _, _)
intersection_members(M, hi, arr, current, fuel) ==
  IF current = NULL THEN M
  ELSE IF fuel = 0 THEN Crash(M)
  ELSE
    Only({
      IF w.m.crash THEN w.m
      ELSE IF w.nonmember = 1
           THEN Only({ intersection_members(w.m, hi, arr, nxt, fuel - 1)
                       : nxt \in {w.m.mem[current].next} })
      ELSE Only({ IF r.m.crash \/ r.m.bad THEN r.m
                  ELSE Only({ intersection_members(r.m, hi, arr, nxt,
                                                   fuel - 1)
                              : nxt \in {r.m.mem[current].next} })
                  : r \in {set_insert(w.m, hi, d)} })
      : d \in {M.mem[current].data},
        w \in {intersection_others(Deref(M, current), arr, 2,
                                   M.mem[current].data)} })

\* set_intersection_func(seti, sets): [m, ret].
set_intersection_func(M, hi, arr) ==
  Only({
    IF o.ret < 0 THEN o
    ELSE [m |-> intersection_members(o.m, hi, arr, o.m.sets[arr[1]].head,
                                     2 * MaxMembers),
          ret |-> 0]
    : o \in {algebra_output(M, hi, arr)} })

\* --------------------------------------------------------------- set_difference
\* A for loop with the membership test the wrong way round: it inserts the
\* members of set1 that are members of set2.
RECURSIVE difference_members_common(_, _, _, _, _)
difference_members_common(M, hd, S2, current, fuel) ==
  IF current = NULL THEN [m |-> M, ret |-> 0]
  ELSE IF fuel = 0 THEN [m |-> Crash(M), ret |-> 0]
  ELSE
    Only({
      IF q.m.crash THEN [m |-> q.m, ret |-> 0]
      ELSE IF q.ret = 0
           THEN Only({ difference_members_common(q.m, hd, S2, nxt, fuel - 1)
                       : nxt \in {q.m.mem[current].next} })
      ELSE Only({ IF r.m.crash \/ r.m.bad THEN r
                  ELSE IF r.ret # 0 THEN [m |-> r.m, ret |-> -1]
                  ELSE Only({ difference_members_common(r.m, hd, S2, nxt, fuel - 1)
                              : nxt \in {r.m.mem[current].next} })
                  : r \in {set_insert(q.m, hd, d)} })
      : d \in {M.mem[current].data},
        q \in {set_ismember(Deref(M, current), S2, M.mem[current].data)} })

\* The for loop of set_difference from current: [m, ret], ret = -1 on the jump
\* to error_exception.
RECURSIVE difference_members(_, _, _, _, _)
difference_members(M, hd, S2, current, fuel) ==
  IF current = NULL THEN [m |-> M, ret |-> 0]
  ELSE IF fuel = 0 THEN [m |-> Crash(M), ret |-> 0]
  ELSE
    Only({
      IF q.m.crash THEN [m |-> q.m, ret |-> 0]
      ELSE IF q.ret # 0
           THEN Only({ difference_members(q.m, hd, S2, nxt, fuel - 1)
                       : nxt \in {q.m.mem[current].next} })
      ELSE Only({ IF r.m.crash \/ r.m.bad THEN r
                  ELSE IF r.ret # 0 THEN [m |-> r.m, ret |-> -1]
                  ELSE Only({ difference_members(r.m, hd, S2, nxt, fuel - 1)
                              : nxt \in {r.m.mem[current].next} })
                  : r \in {set_insert(q.m, hd, d)} })
      : d \in {M.mem[current].data},
        q \in {set_ismember(Deref(M, current), S2, M.mem[current].data)} })

\* set_difference(setd, set1, set2) with setd the address of handle hd and
\* set1, set2 pointing to the Sets S1, S2: [m, ret].
set_difference(M, hd, S1, S2) ==
  IF ~S1.valid \/ ~S2.valid THEN [m |-> M, ret |-> -1]
  ELSE
    Only({
      IF ~M1.sets[hd].valid THEN [m |-> M1, ret |-> -1]
      ELSE Only({ IF r.m.crash \/ r.m.bad \/ r.ret = 0 THEN r
                  ELSE [m |-> set_destroy(r.m, hd), ret |-> -1]
                  : r \in {difference_members(M1, hd, S2, S1.head,
                                              2 * MaxMembers)} })
      : M1 \in {LET c == set_create(M, S1.match, S1.destroy)
                IN  [c.m EXCEPT !.sets[hd] = c.set, !.hist[hd] = <<>>]} })

\* ---------------------------------------------------------------- set_issubset
\* The for loop of set_issubset and of set_isequal from current: [m, ret].
\* It returns 0 at the first member for which set_ismember(set2, ...) is 0.
RECURSIVE subset_members(_, _, _, _)
subset_members(M, S2, current, fuel) ==
  IF current = NULL THEN [m |-> M, ret |-> 1]
  ELSE IF fuel = 0 THEN [m |-> Crash(M), ret |-> 0]
  ELSE
    Only({ IF q.m.crash THEN [m |-> q.m, ret |-> 0]
           ELSE IF q.ret = 0 THEN [m |-> q.m, ret |-> 0]
           ELSE subset_members(q.m, S2, nxt, fuel - 1)
           : nxt \in {M.mem[current].next},
             q \in {set_ismember(Deref(M, current), S2,
                                 M.mem[current].data)} })

\* set_issubset(set1, set2) with set1, set2 pointing to the Sets S1, S2.
set_issubset(M, S1, S2) ==
  IF ~S1.valid \/ ~S2.valid THEN [m |-> M, ret |-> 0]
  ELSE IF set_isempty(S1) = 1 /\ set_isempty(S2) # 1 THEN [m |-> M, ret |-> 1]
  ELSE subset_members(M, S2, S1.head, 2 * MaxMembers)

\* ----------------------------------------------------------------- set_isequal
\* set_isequal(set1, set2) with set1, set2 pointing to the Sets S1, S2.
set_isequal(M, S1, S2) ==
  IF ~S1.valid \/ ~S2.valid THEN [m |-> M, ret |-> 0]
  ELSE IF S1.size # S2.size THEN [m |-> M, ret |-> 0]
  ELSE subset_members(M, S2, S1.head, 2 * MaxMembers)

\* ------------------------------------------------------------------ the caller
\* The caller makes its next call.  After a call that changed nothing the
\* program is in the state it was in before that call, and the calls that can
\* follow are the ones explored from that state: such a call ends its branch.
Ready == ~crashed /\ ~done /\ ~op.same /\ calls < MaxCalls

\* The caller builds its sets, then makes a set operation.
ReadyForSets == Ready /\ calls <= MaxSetup

\* set = set_create(match, destroy) into a handle that holds no set.  Handles
\* that hold no set are alike, the caller takes the first one.
FirstFree(h) == ~sets[h].valid /\ \A g \in 1..(h - 1) : sets[g].valid

\* Ways malloc can choose a cell in the present heap.
Picks ==
  IF freed # {} /\ Addrs \ (live \cup freed) # {} THEN {"reuse", "fresh"}
  ELSE {"reuse"}

\* The array the set_union and set_intersection macros build from the
\* caller's handles: the Set pointers, then NULL.
SetArray(ins) ==
  [i \in 1..(Len(ins) + 1) |->
     IF i <= Len(ins) /\ sets[ins[i]].valid THEN ins[i] ELSE NULL]

\* Handles the caller passes to a call: those that hold a set, and one that
\* holds none.
Passed == {h \in Handles : sets[h].valid \/ FirstFree(h)}

\* Lists of sets the caller passes to set_union and set_intersection: a NULL
\* ends the list, so it is passed first or not at all.
InputLists ==
  {<<h>> : h \in Passed} \cup
  UNION {[1..n -> {h \in Handles : sets[h].valid}] : n \in 2..MaxInputs}

\* The destroy function the caller gives to the set of handle h: free for
\* payloads from malloc, NULL for payloads it keeps itself.
DestroyFn(h) == IF h % 2 = 1 THEN "free" ELSE "NULL"

\* set = set_create(mf, destroy).
CreateWith(mf) ==
  /\ Ready
  /\ \E h \in Handles, fa \in 0..1 :
       /\ FirstFree(h)
       /\ \E c \in {set_create(Machine(fa, "reuse"), mf, DestroyFn(h))} :
              Return([c.m EXCEPT !.sets[h] = c.set, !.hist[h] = <<>>],
                     [Call("create", h, <<>>, NULL, fa) EXCEPT !.match = mf],
                     IF c.set.valid THEN 0 ELSE -1, NULL)

\* set = set_create(match, destroy).
Create == CreateWith("match")

\* set = set_create(NULL, destroy).
CreateNoMatch == CreateWith("NULL")

\* A payload the caller may hand to the set of handle h: one from a new
\* malloc, or the one it has just inserted into that set.  The two payloads
\* of an int are alike, the caller takes the first one first.
Insertable(h, p) ==
  \/ p \notin used /\ (p % 2 = 0 => p - 1 \in used)
  \/ Len(hist[h]) > 0 /\ hist[h][Len(hist[h])] = p

\* The ints the caller points set_remove at: one pointer for each int.
Keys == {p \in Payloads : p % 2 = 1}

\* set_insert(set, data).
Insert ==
  /\ Ready
  /\ \E h \in Passed, p \in Payloads \cup {NULL}, pk \in Picks :
       /\ p # NULL => Insertable(h, p)
       /\ \E r0 \in {set_insert(Machine(0, pk), h, p)} :
              /\ r0.m.nalloc = 0 => pk = "reuse"
              /\ \E fa \in 0..r0.m.nalloc :
                   \E r \in {set_insert(Machine(fa, pk), h, p)} :
                     Return(r.m, Call("insert", h, <<>>, p, fa), r.ret, NULL)

\* A payload the caller has back: set_remove returned it, or set_insert did
\* not take it; no set holds it and no destroy function was called on it.
Owned(p) ==
  /\ p \in used /\ p \notin released
  /\ \A h \in Handles : \A i \in 1..Len(hist[h]) : hist[h][i] # p

\* set_insert(set, data) with a payload the caller has back.
Reinsert ==
  /\ Ready
  /\ \E h \in Passed, p \in Payloads, pk \in Picks :
       /\ sets[h].valid /\ Owned(p)
       /\ \E r0 \in {set_insert(Machine(0, pk), h, p)} :
              /\ r0.m.nalloc = 0 => pk = "reuse"
              /\ \E fa \in 0..r0.m.nalloc :
                   \E r \in {set_insert(Machine(fa, pk), h, p)} :
                     Return(r.m, Call("insert", h, <<>>, p, fa), r.ret, NULL)

\* set_remove(set, &data) with data == sel.
Remove ==
  /\ Ready
  /\ \E h \in Passed, sel \in Keys \cup {NULL, NoData} :
       \E r \in {set_remove(Machine(0, "reuse"), h, sel)} :
         Return(r.m, Call("remove", h, <<>>, sel, 0), r.ret, r.out)

\* set_destroy(&set).
Destroy ==
  /\ Ready
  /\ \E h \in Passed :
       \E M \in {set_destroy(Machine(0, "reuse"), h)} :
         Return(M, Call("destroy", h, <<>>, NULL, 0), 0, NULL)

\* set_union(&setu, sets...).
Union ==
  /\ ReadyForSets
  /\ \E hu \in Passed, ins \in InputLists, pk \in Picks :
       \E r0 \in {set_union_func(Machine(0, pk), hu, SetArray(ins))} :
         /\ r0.m.nalloc = 0 => pk = "reuse"
         /\ \E fa \in 0..r0.m.nalloc :
              \E r \in {set_union_func(Machine(fa, pk), hu, SetArray(ins))} :
                Return(r.m, Call("union", hu, ins, NULL, fa), r.ret, NULL)

\* set_intersection(&seti, sets...).
Intersection ==
  /\ ReadyForSets
  /\ \E hi \in Passed, ins \in InputLists, pk \in Picks :
       \E r0 \in {set_intersection_func(Machine(0, pk), hi, SetArray(ins))} :
         /\ r0.m.nalloc = 0 => pk = "reuse"
         /\ \E fa \in 0..r0.m.nalloc :
              \E r \in {set_intersection_func(Machine(fa, pk), hi,
                                             SetArray(ins))} :
                Return(r.m, Call("intersection", hi, ins, NULL, fa),
                       r.ret, NULL)

\* set_difference(&setd, set1, set2).
Difference ==
  /\ ReadyForSets
  /\ \E hd \in Passed, h1 \in Passed, h2 \in Passed, pk \in Picks :
       \E r0 \in {set_difference(Machine(0, pk), hd, sets[h1], sets[h2])} :
         /\ r0.m.nalloc = 0 => pk = "reuse"
         /\ \E fa \in 0..r0.m.nalloc :
              \E r \in {set_difference(Machine(fa, pk), hd, sets[h1],
                                      sets[h2])} :
                Return(r.m, Call("difference", hd, <<h1, h2>>, NULL, fa),
                       r.ret, NULL)

\* A call that reads the sets can follow any call that changed them.
ReadyToAsk == ~crashed /\ ~done /\ ~op.same

\* set_ismember(set, data).
IsMember ==
  /\ ReadyToAsk
  /\ \E h \in Passed, p \in Keys \cup {NULL} :
       \E r \in {set_ismember(Machine(0, "reuse"), sets[h], p)} :
         Return(r.m, Call("ismember", h, <<>>, p, 0), r.ret, NULL)

\* set_issubset(set1, set2).
IsSubset ==
  /\ ReadyToAsk
  /\ \E h1 \in Passed, h2 \in Passed :
       \E r \in {set_issubset(Machine(0, "reuse"), sets[h1], sets[h2])} :
         Return(r.m, Call("issubset", h1, <<h1, h2>>, NULL, 0), r.ret, NULL)

\* set_isequal(set1, set2).
IsEqual ==
  /\ ReadyToAsk
  /\ \E h1 \in Passed, h2 \in Passed :
       \E r \in {set_isequal(Machine(0, "reuse"), sets[h1], sets[h2])} :
         Return(r.m, Call("isequal", h1, <<h1, h2>>, NULL, 0), r.ret, NULL)

\* set_destroy(&set) on the sets that are left when the caller has made its
\* set operation.
Teardown ==
  /\ done /\ ~crashed
  /\ \E h \in Handles :
       /\ sets[h].valid
       /\ \E M \in {set_destroy(Machine(0, "reuse"), h)} :
            Return(M, Call("destroy", h, <<>>, NULL, 0), 0, NULL)

\* set_traverse(set, func).
Traverse ==
  /\ ReadyToAsk
  /\ \E h \in Passed, fn \in {"visit", "NULL"} :
       \E r \in {set_traverse(Machine(0, "reuse"), sets[h], fn)} :
         Return(r.m, [Call("traverse", h, <<>>, NULL, 0) EXCEPT !.func = fn],
                r.ret, NULL)

Next ==
  \/ Create
  \/ CreateNoMatch
  \/ Insert
  \/ Remove
  \/ Destroy
  \/ Union
  \/ Intersection
  \/ Difference
  \/ IsMember
  \/ IsSubset
  \/ IsEqual
  \/ Traverse
  \/ Reinsert
  \/ Teardown

Spec == Init /\ [][Next]_vars

\* The container alone: create, insert, remove and destroy.
NextCore == Create \/ Insert \/ Remove \/ Destroy

SpecCore == Init /\ [][NextCore]_vars

\* The container and one of the set operations.
NextUnion == Create \/ Insert \/ Remove \/ Destroy \/ Union

SpecUnion == Init /\ [][NextUnion]_vars

NextIntersection == Create \/ Insert \/ Remove \/ Destroy \/ Intersection

SpecIntersection == Init /\ [][NextIntersection]_vars

NextDifference == Create \/ Insert \/ Remove \/ Destroy \/ Difference

SpecDifference == Init /\ [][NextDifference]_vars

\* The container with sets created without a match function.
NextNoMatch == Create \/ CreateNoMatch \/ Insert \/ Remove \/ Destroy

SpecNoMatch == Init /\ [][NextNoMatch]_vars

\* The container with callers that insert again what they have removed.
NextReinsert == Create \/ Insert \/ Reinsert \/ Remove \/ Destroy

SpecReinsert == Init /\ [][NextReinsert]_vars

\* The container and the set operations, with the sets destroyed at the end.
NextTeardown ==
  \/ Create
  \/ Insert
  \/ Remove
  \/ Destroy
  \/ Union
  \/ Intersection
  \/ Difference
  \/ Teardown

SpecTeardown == Init /\ [][NextTeardown]_vars

\* The container and the calls that read it.
NextQuery ==
  \/ Create
  \/ CreateNoMatch
  \/ Insert
  \/ Remove
  \/ Destroy
  \/ IsMember
  \/ IsSubset
  \/ IsEqual
  \/ Traverse

SpecQuery == Init /\ [][NextQuery]_vars

\* ------------------------------------------------------------- observations
\* The member addresses met from address a by following next in the heap m,
\* at most n of them.
RECURSIVE ChainFrom(_, _, _)
ChainFrom(m, a, n) ==
  IF a = NULL \/ n = 0 THEN <<>>
  ELSE <<a>> \o ChainFrom(m, m[a].next, n - 1)

\* The members of the Set S in the heap m, from head.
ChainOf(m, S) == ChainFrom(m, S.head, MaxMembers + 1)

\* Their payloads, in the same order.
DataOf(m, S) == [i \in 1..Len(ChainOf(m, S)) |-> m[ChainOf(m, S)[i]].data]

\* The two payloads hold the same int.
SameInt(p, q) == (p + 1) \div 2 = (q + 1) \div 2

\* tail is the last member met from head, and nothing follows it.
TailEndsChain(m, S) ==
  LET c == ChainOf(m, S) IN
  IF c = <<>> THEN S.tail = NULL
  ELSE S.tail = c[Len(c)] /\ m[S.tail].next = NULL

\* The ints of a sequence of payloads.
IntsOf(seq) == [i \in 1..Len(seq) |-> (seq[i] + 1) \div 2]

\* The int of p is among the ints of the payloads of seq.
IntIn(p, seq) == \E i \in 1..Len(seq) : SameInt(seq[i], p)

\* The set of handle h is well formed: it has a match function, size counts
\* the members met from head, they are allocated cells met once each, tail is
\* the last of them, and no two of them hold the same int.
WellFormed(h) ==
  LET c == ChainOf(mem, sets[h])
      d == DataOf(mem, sets[h])
  IN  /\ sets[h].valid
      /\ sets[h].match # "NULL"
      /\ sets[h].size = Len(c)
      /\ \A i \in 1..Len(c) : c[i] \in live
      /\ \A i, j \in 1..Len(c) : i # j => (c[i] # c[j] /\ ~SameInt(d[i], d[j]))
      /\ TailEndsChain(mem, sets[h])

\* The payloads of the sets of the handles ins[i], ins[i+1], ... one set
\* after the other.
RECURSIVE InputData(_, _)
InputData(ins, i) ==
  IF i > Len(ins) THEN <<>>
  ELSE DataOf(mem, sets[ins[i]]) \o InputData(ins, i + 1)

\* kept, then the payloads of seq whose int is not met before them.
RECURSIVE KeepFirst(_, _)
KeepFirst(seq, kept) ==
  IF seq = <<>> THEN kept
  ELSE IF IntIn(Head(seq), kept) THEN KeepFirst(Tail(seq), kept)
  ELSE KeepFirst(Tail(seq), Append(kept, Head(seq)))

\* The payloads of seq whose int is in every set of ins[i], ins[i+1], ...
RECURSIVE InAllFrom(_, _, _)
InAllFrom(seq, ins, i) ==
  IF seq = <<>> THEN <<>>
  ELSE LET rest == InAllFrom(Tail(seq), ins, i)
       IN  IF \A j \in i..Len(ins) : IntIn(Head(seq), DataOf(mem, sets[ins[j]]))
           THEN <<Head(seq)>> \o rest ELSE rest

\* The payloads of seq whose int is not among those of other.
RECURSIVE NotIn(_, _)
NotIn(seq, other) ==
  IF seq = <<>> THEN <<>>
  ELSE IF IntIn(Head(seq), other) THEN NotIn(Tail(seq), other)
  ELSE <<Head(seq)>> \o NotIn(Tail(seq), other)

\* The last call gave the set of handle h the ints want, in that order.
Produced(h, want) ==
  /\ ~crashed' /\ ret' = 0
  /\ sets'[h].valid
  /\ IntsOf(DataOf(mem', sets'[h])) = IntsOf(want)
  /\ sets'[h].size = Len(want)

\* ---------------------------------------------------------------- the claims

\* C1: the size field of every set equals the number of members reachable
\* from head by following next links.
C1_SizeCountsMembers ==
  \A h \in Handles :
    sets[h].valid => sets[h].size = Len(ChainOf(mem, sets[h]))

\* C2: after a successful set_remove the chain from head ends at the member
\* that tail designates: tail is reachable from head and tail.next is NULL.
C2_RemoveKeepsTail ==
  (op.name = "remove" /\ ~crashed /\ ret = 0 /\ sets[op.h].valid)
    => TailEndsChain(mem, sets[op.h])

\* C3: size == 0 holds if and only if both head and tail are NULL.
C3_EmptyIffNoHeadNoTail ==
  \A h \in Handles :
    sets[h].valid =>
      ((sets[h].size = 0) <=> (sets[h].head = NULL /\ sets[h].tail = NULL))

\* C4: a set_insert of e that directly follows a successful set_insert of e
\* into the same set, or any set_insert of an element that matches a member
\* of the set, returns 1 and leaves the size and the member chain unchanged.
C4_DuplicateRejected ==
  [][\A h \in Handles, e \in Payloads :
       ( /\ op'.name = "insert" /\ op'.h = h /\ op'.data = e
         /\ sets[h].valid
         /\ \/ op.name = "insert" /\ op.h = h /\ op.data = e
               /\ ~crashed /\ ret = 0
            \/ \E i \in 1..Len(DataOf(mem, sets[h])) :
                 SameInt(DataOf(mem, sets[h])[i], e) )
       => ( /\ ~crashed' /\ ret' = 1
            /\ sets'[h] = sets[h]
            /\ ChainOf(mem', sets'[h]) = ChainOf(mem, sets[h])
            /\ DataOf(mem', sets'[h]) = DataOf(mem, sets[h]) )]_vars

\* C5: a set_remove with a NULL selector on a set with size > 0 succeeds,
\* hands back the earliest element that was inserted successfully and not
\* yet removed, and decrements size by one.
C5_RemoveIsFifo ==
  [][\A h \in Handles :
       ( /\ op'.name = "remove" /\ op'.h = h /\ op'.data = NULL
         /\ sets[h].valid /\ sets[h].size > 0 )
       => ( /\ ~crashed' /\ ret' = 0
            /\ hist[h] # <<>> /\ out' = Head(hist[h])
            /\ sets'[h].size = sets[h].size - 1 )]_vars

\* C6: set_union on one or more well-formed sets and an output handle that
\* holds no set, in a call where no allocation fails, returns 0, and the
\* output holds each int of the inputs once, in the order of first
\* occurrence over the inputs from left to right; its size is their number.
C6_UnionCorrect ==
  [][( /\ op'.name = "union" /\ op'.failed = "no"
       /\ ~sets[op'.h].valid
       /\ \A i \in 1..Len(op'.ins) : WellFormed(op'.ins[i]) )
     => Produced(op'.h, KeepFirst(InputData(op'.ins, 1), <<>>))]_vars

\* A union of two well-formed sets that share an int was made.
C6_Witness ==
  /\ op.name = "union" /\ ~crashed /\ ret = 0 /\ op.fresh
  /\ Len(op.ins) = 2 /\ op.ins[1] # op.ins[2]
  /\ WellFormed(op.ins[1]) /\ WellFormed(op.ins[2])
  /\ sets[op.h].size > sets[op.ins[1]].size
  /\ sets[op.h].size < sets[op.ins[1]].size + sets[op.ins[2]].size

\* C7: set_intersection on two or more well-formed sets and an output handle
\* that holds no set, in a call where no allocation fails, returns 0, and the
\* output holds the elements of the first input that are members of every
\* other input, and no others, in the order of the first input.
C7_IntersectionCorrect ==
  [][( /\ op'.name = "intersection" /\ op'.failed = "no"
       /\ ~sets[op'.h].valid
       /\ Len(op'.ins) >= 2
       /\ \A i \in 1..Len(op'.ins) : WellFormed(op'.ins[i]) )
     => Produced(op'.h,
                 InAllFrom(DataOf(mem, sets[op'.ins[1]]), op'.ins, 2))]_vars

\* An intersection of two well-formed sets kept one element of the first and
\* dropped another.
C7_Witness ==
  /\ op.name = "intersection" /\ ~crashed /\ ret = 0 /\ op.fresh
  /\ Len(op.ins) = 2 /\ op.ins[1] # op.ins[2]
  /\ WellFormed(op.ins[1]) /\ WellFormed(op.ins[2])
  /\ sets[op.h].size > 0
  /\ sets[op.h].size < sets[op.ins[1]].size

\* C8: set_difference on well-formed set1 and set2, in a call where no
\* allocation fails, returns 0, and the output is a set that holds the
\* elements of set1 that are not members of set2, in the order of set1; it
\* is an empty set, not NULL, when there are none.
C8_DifferenceCorrect ==
  [][( /\ op'.name = "difference" /\ op'.failed = "no"
       /\ WellFormed(op'.ins[1]) /\ WellFormed(op'.ins[2]) )
     => Produced(op'.h, NotIn(DataOf(mem, sets[op'.ins[1]]),
                              DataOf(mem, sets[op'.ins[2]])))]_vars

\* A difference of two well-formed sets kept one element of set1 and dropped
\* another.
C8_Witness ==
  /\ op.name = "difference" /\ ~crashed /\ ret = 0
  /\ op.h # op.ins[1] /\ op.h # op.ins[2] /\ op.ins[1] # op.ins[2]
  /\ WellFormed(op.ins[1]) /\ WellFormed(op.ins[2])
  /\ sets[op.h].size > 0
  /\ sets[op.h].size < sets[op.ins[1]].size

\* C9: no payload is held by members of two different sets.
C9_ExclusiveOwnership ==
  \A h, g \in Handles :
    (h # g /\ sets[h].valid /\ sets[g].valid) =>
      \A i \in 1..Len(DataOf(mem, sets[h])), j \in 1..Len(DataOf(mem, sets[g])) :
        DataOf(mem, sets[h])[i] # DataOf(mem, sets[g])[j]

\* C10: when the allocation of a member fails while set_union,
\* set_intersection or set_difference builds its result, the call returns -1,
\* the output handle holds no set, and the process goes on.
C10_TeardownOnFailure ==
  (op.name \in {"union", "intersection", "difference"} /\ op.failed = "member")
    => (~crashed /\ ret = -1 /\ ~sets[op.h].valid)

\* C11: set_destroy on a handle that holds no set (never created, or reset by
\* an earlier set_destroy) does nothing and the process goes on.
C11_DestroyNoSetIsNoOp ==
  (op.name = "destroy" /\ op.fresh) => ~crashed

\* C12: set_create returns NULL when it is given no match function, and an
\* empty set (size 0, head and tail NULL) when it is given one and its
\* allocation does not fail, with or without a destroy function.
C12_CreateNeedsMatch ==
  (op.name = "create" /\ ~crashed) =>
    IF op.match = "NULL" THEN ret = -1 /\ ~sets[op.h].valid
    ELSE op.failed = "no" =>
           /\ ret = 0 /\ sets[op.h].valid
           /\ sets[op.h].size = 0
           /\ sets[op.h].head = NULL /\ sets[op.h].tail = NULL

\* C13: set_remove with a selector that is not NULL and matches no member of
\* the set (an empty set included) returns -1, leaves the set and its members
\* as they were, and leaves the selector as it was.
C13_RemoveNotFound ==
  [][( /\ op'.name = "remove" /\ op'.data \in Payloads
       /\ sets[op'.h].valid /\ sets[op'.h].match # "NULL"
       /\ ~IntIn(op'.data, DataOf(mem, sets[op'.h])) )
     => ( /\ ~crashed' /\ ret' = -1
          /\ sets' = sets /\ mem' = mem /\ live' = live
          /\ out' = op'.data )]_vars

\* C14: set_remove on a set that has members, with a data argument that is
\* NULL itself, returns a value other than 0, does not crash and leaves the
\* set as it was.
C14_RemoveNoDataArgument ==
  [][( /\ op'.name = "remove" /\ op'.data = NoData
       /\ sets[op'.h].valid /\ sets[op'.h].size > 0 )
     => ( /\ ~crashed' /\ ret' # 0
          /\ sets' = sets /\ mem' = mem /\ live' = live )]_vars

\* C15: set_intersection with one input set returns -1 and makes no result:
\* the output handle holds what it held before.
C15_IntersectionNeedsTwo ==
  [][( /\ op'.name = "intersection" /\ Len(op'.ins) = 1
       /\ WellFormed(op'.ins[1]) )
     => ( /\ ~crashed' /\ ret' = -1
          /\ sets'[op'.h] = sets[op'.h] )]_vars

\* C16: set_union, set_intersection and set_difference on an output handle
\* that holds a set with members return -1 and leave that set and its members
\* as they were.
C16_OutputNotEmpty ==
  [][( /\ op'.name \in {"union", "intersection", "difference"}
       /\ WellFormed(op'.h) /\ sets[op'.h].size > 0
       /\ \A i \in 1..Len(op'.ins) : WellFormed(op'.ins[i]) )
     => ( /\ ~crashed' /\ ret' = -1
          /\ sets'[op'.h] = sets[op'.h]
          /\ DataOf(mem', sets'[op'.h]) = DataOf(mem, sets[op'.h]) )]_vars

\* The handle h holds no set, or a set that has a match function.
HasMatch(h) == sets[h].valid => sets[h].match # "NULL"

\* Every payload of seq has its int among those of other.
AllIn(seq, other) == \A i \in 1..Len(seq) : IntIn(seq[i], other)

\* C17: set_issubset(set1, set2) returns 1 when both sets exist and every
\* member of set1 reachable from its head is a member of set2, and 0
\* otherwise; in particular 0 when set1 has members and set2 has none.
C17_IsSubset ==
  [][( /\ op'.name = "issubset"
       /\ HasMatch(op'.ins[1]) /\ HasMatch(op'.ins[2]) )
     => LET S1 == sets[op'.ins[1]]
            S2 == sets[op'.ins[2]]
        IN  /\ ~crashed'
            /\ ret' = IF /\ S1.valid /\ S2.valid
                         /\ AllIn(DataOf(mem, S1), DataOf(mem, S2))
                      THEN 1 ELSE 0
            /\ (S1.valid /\ S2.valid /\ S1.size > 0 /\ S2.size = 0)
                 => ret' = 0 ]_vars

\* C18: set_isequal(S, S) returns 1 for every set S made by set_create and
\* any inserts and removes; set_isequal(S, T)
\* returns 0 when a set is missing or the sizes differ, and for sets of the
\* same size it returns 1 exactly when every member of S is a member of T.
C18_IsEqual ==
  [][( op'.name = "isequal" )
     => LET S1 == sets[op'.ins[1]]
            S2 == sets[op'.ins[2]]
        IN  /\ ~crashed'
            /\ (S1.valid /\ op'.ins[1] = op'.ins[2]) => ret' = 1
            /\ (~S1.valid \/ ~S2.valid) => ret' = 0
            /\ (S1.valid /\ S2.valid /\ S1.size # S2.size) => ret' = 0
            /\ (S1.valid /\ S2.valid /\ S1.size = S2.size)
                 => ret' = IF AllIn(DataOf(mem, S1), DataOf(mem, S2))
                           THEN 1 ELSE 0 ]_vars

\* C19: set_ismember returns -1 without a set or without an element, 0 on a
\* set of size 0, and otherwise 1 or 0 as some member reachable from head
\* matches the element or none does; the set stays as it was.
C19_IsMember ==
  [][( op'.name = "ismember" /\ HasMatch(op'.h) )
     => LET S == sets[op'.h]
        IN  /\ ~crashed'
            /\ ret' = IF ~S.valid \/ op'.data = NULL THEN -1
                      ELSE IF S.size = 0 THEN 0
                      ELSE IF IntIn(op'.data, DataOf(mem, S)) THEN 1
                      ELSE 0
            /\ sets' = sets /\ mem' = mem /\ live' = live ]_vars

\* C20: a set_insert that returns 1 was given an element the set already
\* holds; a set_insert without a set or without an element returns -1; and a
\* set_insert that does not return 0 stores nothing.
C20_InsertFailures ==
  [][( op'.name = "insert" /\ ~crashed' )
     => LET S == sets[op'.h]
        IN  /\ ret' = 1 => (S.valid /\ IntIn(op'.data, DataOf(mem, S)))
            /\ (~S.valid \/ op'.data = NULL) => ret' = -1
            /\ ret' # 0 => (sets' = sets /\ mem' = mem /\ live' = live) ]_vars

\* The handle h holds no set, or a well-formed one.
Sound(h) == sets[h].valid => WellFormed(h)

\* C21: set_traverse returns -1 and calls nothing when there is no set, the
\* set has no members or func is NULL; otherwise it returns 0 after calling
\* func once on each member's payload, oldest first, and the set stays as it
\* was.
C21_Traverse ==
  [][( op'.name = "traverse" /\ Sound(op'.h) )
     => LET S == sets[op'.h]
        IN  /\ ~crashed'
            /\ sets' = sets /\ mem' = mem /\ live' = live
            /\ IF ~S.valid \/ S.size = 0 \/ op'.func = "NULL"
               THEN ret' = -1 /\ log' = <<>>
               ELSE ret' = 0 /\ log' = hist[op'.h] ]_vars

\* C22: after set_union, set_intersection or set_difference returns 0, the
\* match and destroy functions of the output set are those of the first
\* input, also when the output handle held an empty set before the call.
C22_FunctionsOfFirstInput ==
  [][( /\ op'.name \in {"union", "intersection", "difference"}
       /\ ~crashed' /\ ret' = 0
       /\ \A i \in 1..Len(op'.ins) : WellFormed(op'.ins[i]) )
     => ( /\ sets'[op'.h].valid
          /\ sets'[op'.h].match = sets[op'.ins[1]].match
          /\ sets'[op'.h].destroy = sets[op'.ins[1]].destroy )]_vars

\* The first payload of seq whose int is that of p, or the first payload of
\* seq when p is NULL; NULL when there is none.
FirstMatch(seq, p) ==
  LET hits == {i \in 1..Len(seq) : p = NULL \/ SameInt(seq[i], p)}
  IN  IF hits = {} THEN NULL ELSE seq[Min(hits)]

\* C23: a set_remove that returns 0 calls no destroy function and leaves in
\* *data the payload that the removed member held, not the selector it was
\* given; a destroy function is called only in set_destroy.
C23_RemoveHandsBack ==
  [][ ~crashed' =>
        /\ (op'.name = "remove" /\ ret' = 0)
             => ( /\ log' = <<>> /\ released' = released
                  /\ out' # NULL
                  /\ out' = FirstMatch(DataOf(mem, sets[op'.h]), op'.data)
                  /\ out' \notin released' )
        /\ released' # released => op'.name = "destroy" ]_vars

\* A member was removed from a set that has a destroy function, with a
\* selector that is another pointer than the payload handed back.
C23_Witness ==
  /\ op.name = "remove" /\ ~crashed /\ ret = 0
  /\ op.data \in Payloads /\ out # op.data
  /\ sets[op.h].valid /\ sets[op.h].destroy = "free"
  /\ log = <<>> /\ released = {}

\* C24: set_union, set_intersection, set_difference, set_issubset and
\* set_isequal leave each of their input sets as it was: size, head, tail,
\* the members met from head and their payloads.
C24_InputsUnchanged ==
  [][( /\ op'.name \in {"union", "intersection", "difference", "issubset",
                        "isequal"}
       /\ ~crashed' )
     => \A i \in 1..Len(op'.ins) :
          LET S == sets[op'.ins[i]]
              \* set_difference stores a new Set in its output handle; the Set
              \* the handle pointed to is then known by its members only
              lost == op'.name = "difference" /\ op'.ins[i] = op'.h
          IN  /\ ~lost => sets'[op'.ins[i]] = S
              /\ ChainOf(mem', S) = ChainOf(mem, S)
              /\ DataOf(mem', S) = DataOf(mem, S) ]_vars

\* No two members met from the head of the set S in heap m hold payloads
\* that match.
NoDuplicates(m, S) ==
  LET d == DataOf(m, S)
  IN  \A i, j \in 1..Len(d) : i # j => ~SameInt(d[i], d[j])

\* C25: after every call, in every set that has a match function, no two
\* members met from head hold payloads that match; and a set_insert that
\* returns 1 leaves the members and their payloads as they were.
C25_NoDuplicates ==
  [][ ~crashed' =>
        /\ \A h \in Handles :
             (sets'[h].valid /\ sets'[h].match # "NULL")
               => NoDuplicates(mem', sets'[h])
        /\ (op'.name = "insert" /\ ret' = 1 /\ sets[op'.h].valid)
             => DataOf(mem', sets'[op'.h]) = DataOf(mem, sets[op'.h]) ]_vars

\* C26: set_destroy on a handle that holds a set ends without a crash, frees
\* every member of the set, calls the set's destroy function once on each
\* payload the set holds, oldest first (and not at all when the set has no
\* destroy function), and leaves NULL in the handle.
C26_DestroyReleasesAll ==
  [][( op'.name = "destroy" /\ sets[op'.h].valid )
     => ( /\ ~crashed'
          /\ ~sets'[op'.h].valid
          /\ \A i \in 1..Len(ChainOf(mem, sets[op'.h])) :
               ChainOf(mem, sets[op'.h])[i] \notin live'
          /\ log' = IF sets[op'.h].destroy = "NULL" THEN <<>>
                    ELSE hist[op'.h] )]_vars

\* C27: set_remove with *data == NULL on a set of size 0 returns -1, leaves
\* the set as it was, and the process goes on.
C27_RemoveHeadOfEmpty ==
  [][( /\ op'.name = "remove" /\ op'.data = NULL
       /\ sets[op'.h].valid /\ sets[op'.h].size = 0 )
     => ( /\ ~crashed' /\ ret' = -1
          /\ sets' = sets /\ mem' = mem /\ live' = live )]_vars

\* C28: when every set has a destroy function, a set_destroy calls it only
\* on payloads that no destroy function was called on before.
C28_NoDoubleRelease ==
  [][( /\ op'.name = "destroy" /\ ~crashed'
       /\ \A h \in Handles : sets[h].valid => sets[h].destroy # "NULL" )
     => \A i \in 1..Len(log') : log'[i] \notin released ]_vars

====
